---- MODULE Spec2Model ----
(***************************************************************************)
(* Model of the AxisOS front-end controller (src/src/App.tsx): the boot    *)
(* sequence, the session-scoped interaction log, the single-flight submit  *)
(* pipeline, the session delete handler, the observer push channel, the    *)
(* textarea's key handling and the vitals poller, and of the zustand       *)
(* store useOSStore (src/unnamed/part_000).                                *)
(*                                                                         *)
(* React semantics used throughout:                                        *)
(*  - a handler started by a user event reads the state of the latest      *)
(*    render; the code after an `await` keeps the values its closure       *)
(*    captured when the handler was called (text, sessionId);              *)
(*  - an effect with dependency [sessionId] is cleaned up and re-run in    *)
(*    the same step in which sessionId changes value;                      *)
(*  - strings that are trimmed are sequences of one-character strings.     *)
(* The backend (ask_axis, fetch_history, delete_history) is not part of    *)
(* the front-end sources; it is modelled from its contract.                *)
(***************************************************************************)
EXTENDS Integers, Sequences, FiniteSets, TLC

\* ------------------------------------------------------------------ bounds
\* number of user / push-channel events in one behaviour
MaxOps == 2

\* the number of get_vital_stats calls in flight at one time
MaxPolls == 2

\* the number of logs added to the store in one behaviour
MaxStoreLogs == 2

\* ------------------------------------------------------- program constants
\* BOOT_STEPS.length
NumBootSteps == 6

VARIABLES
  bootIndex,      \* useState<number>(-1)
  bootCompleted,  \* useState(false)
  viewMode,       \* useState<'boot' | 'chat'>('boot')
  logs,           \* useState<InteractionLog[]>([])
  sessionId,      \* useState<string>("")
  inputValue,     \* useState("")
  isThinking,     \* useState(false)
  initp,          \* the history-loading effect's init() call
  sends,          \* executeSend calls that are past their guard
  dels,           \* handleDeleteSession calls that are past confirm()
  subs,           \* listen() calls of the observer effect still alive
  history,        \* backend: the authoritative history
  backendSeq,     \* backend: number of log ids it has generated
  nextUUID,       \* number of crypto.randomUUID() results handed out
  ops,            \* number of user / push-channel events so far
  lastAct,        \* the step taken last: [op, sid, p]; op is "step" for
                  \* the steps no property refers to
  ticks,          \* number of times the boot interval's callback has run
  isComposing,    \* useState(false)
  stats,          \* useState<SystemStats | null>(null)
  polls,          \* get_vital_stats calls in flight
  activeProvider, \* useOSStore: activeProvider
  isProcessing,   \* useOSStore: isProcessing
  systemStatus,   \* useOSStore: systemStatus
  osLogs          \* useOSStore: logs

vars == << bootIndex, bootCompleted, viewMode, logs, sessionId, inputValue,
           isThinking, initp, sends, dels, subs, history, backendSeq,
           nextUUID, ops, lastAct, ticks, isComposing, stats, polls,
           activeProvider, isProcessing, systemStatus, osLogs >>

bootVars == << bootIndex, bootCompleted, viewMode, ticks >>
\* the state of the zustand store useOSStore
storeVars == << activeProvider, isProcessing, systemStatus, osLogs >>
\* the composition flag, the vitals slot and the store
auxVars == << isComposing, stats, polls, storeVars >>
backendVars == << history, backendSeq >>

\* ------------------------------------------------------------ data values
\* InteractionLog (timestamp left out: Date.now() is never read back)
Log(id, sid, toks, resp, prov) ==
  [ id |-> id, session_id |-> sid, user_tokens |-> toks,
    ai_response |-> resp, provider_used |-> prov ]

\* crypto.randomUUID(): the n-th result, distinct from every other id
UUID(n) == "u" \o ToString(n)

\* the id of the n-th log the backend creates
BackendId(n) == "k" \o ToString(n)

LogA == Log("a", "s1", << <<"q">> >>, "ok", "Axis")
LogB == Log("b", "s2", << <<"q">> >>, "ok", "Axis")

\* what the history provider may hold when the application starts
InitHistories == { << >>, << LogA, LogB >> }

\* what get_vital_stats may return (SystemStats values)
StatsValues == { "statsA", "statsB" }

\* AIProvider
Providers == { "gpt", "gemini", "grok", "claude", "nemotron", "sd", "sora" }

\* CommanderState['systemStatus']
Statuses == { "IDLE", "THINKING", "EXECUTING", "ERROR" }

\* InteractionLog values handed to addLog (core/types.ts)
StoreLog(id, sid, prov) ==
  [ id |-> id, sessionId |-> sid, aiResponse |-> "ok", providerUsed |-> prov ]
StoreLogs == { StoreLog("x", "s1", "gemini"), StoreLog("y", "s2", "gpt") }

\* e.key values of a keydown event
Keys == { "Enter", "a" }

\* payloads of the observer push channel
Payloads == { "hello" }

\* contents of the textarea
Whitespace == { " ", "\n" }
Inputs == { << >>, << " ", "\n" >>, << " ", "h", "i", "\n" >> }

Act(op, sid, p) == [ op |-> op, sid |-> sid, p |-> p ]

\* -------------------------------------------------------- pure functions
RECURSIVE TrimStart(_)
TrimStart(s) ==
  IF s = << >> THEN << >>
  ELSE IF Head(s) \in Whitespace THEN TrimStart(Tail(s)) ELSE s

RECURSIVE TrimEnd(_)
TrimEnd(s) ==
  IF s = << >> THEN << >>
  ELSE IF s[Len(s)] \in Whitespace THEN TrimEnd(SubSeq(s, 1, Len(s) - 1)) ELSE s

\* String.prototype.trim
Trim(s) == TrimEnd(TrimStart(s))

Includes(seq, x) == \E i \in 1..Len(seq) : seq[i] = x

\* Array.from(new Set(ids)): distinct values in first-appearance order
RECURSIVE Distinct(_)
Distinct(seq) ==
  IF seq = << >> THEN << >>
  ELSE LET front == Distinct(SubSeq(seq, 1, Len(seq) - 1))
           x == seq[Len(seq)]
       IN IF Includes(front, x) THEN front ELSE Append(front, x)

SessionIds(ls) == [ i \in 1..Len(ls) |-> ls[i].session_id ]

\* the session list without the synthesized active id
sessionsNoSynth(ls, sid) == Distinct(SessionIds(ls))

\* const sessions = useMemo(...)
sessionsOf(ls, sid) ==
  LET ids == Distinct(SessionIds(ls))
  IN IF sid # "" /\ ~Includes(ids, sid) THEN Append(ids, sid) ELSE ids

sessions == sessionsOf(logs, sessionId)

\* the filter giving the matching logs newest first
logsForReversed(ls, sid) ==
  LET Keep(l) == l.session_id = sid
      kept == SelectSeq(ls, Keep)
  IN [ i \in 1..Len(kept) |-> kept[Len(kept) + 1 - i] ]

\* const currentLogs = useMemo(...)
logsFor(ls, sid) ==
  LET Keep(l) == l.session_id = sid IN SelectSeq(ls, Keep)

currentLogs == logsFor(logs, sessionId)

\* renderedSteps with a step shown as done as soon as the cursor reaches it
StepStatusNoRunning(index, cursor, completed) ==
  IF index <= cursor THEN "ok"
  ELSE IF completed /\ index = NumBootSteps - 1 THEN "ok"
  ELSE "pending"

\* the status renderedSteps gives the step at `index`
StepStatus(index, cursor, completed) ==
  IF index < cursor THEN "ok"
  ELSE IF index = cursor /\ ~completed THEN "running"
  ELSE IF completed /\ index = NumBootSteps - 1 THEN "ok"
  ELSE "pending"

\* indices of BOOT_STEPS
StepIndices == 0 .. (NumBootSteps - 1)

\* const renderedSteps = useMemo(...): the status of every step
renderedSteps == [ index \in StepIndices |->
                     StepStatus(index, bootIndex, bootCompleted) ]

\* the steps rendered as running
Running == { index \in StepIndices : renderedSteps[index] = "running" }

\* remove the i-th element of a sequence
RemoveAt(seq, i) == SubSeq(seq, 1, i - 1) \o SubSeq(seq, i + 1, Len(seq))

\* --------------------------------------------------- observer subscription
\* A subscription is one setupListener() call: sid is the sessionId its
\* listener closure captured, resolved tells whether `await listen(...)` has
\* returned (listener registered, unlisten assigned), cleaned whether the
\* effect's cleanup has already run for it.
Sub(sid) == [ sid |-> sid, resolved |-> FALSE, cleaned |-> FALSE ]

\* return () => { if (unlisten) unlisten(); }
RECURSIVE Cleanup(_)
Cleanup(ss) ==
  IF ss = << >> THEN << >>
  ELSE LET s == Head(ss)
           rest == Cleanup(Tail(ss))
       IN IF s.cleaned THEN << s >> \o rest
          ELSE IF s.resolved THEN rest
          ELSE << [ s EXCEPT !.cleaned = TRUE ] >> \o rest

\* useEffect(..., [sessionId]) when a setter gives sessionId the value sid
ObserverEffect(sid) ==
  IF sid = sessionId THEN subs
  ELSE Append(Cleanup(subs), Sub(sid))

\* the listeners registered on 'axis-observer-event'
Registered == SelectSeq(subs, LAMBDA s : s.resolved)

\* ------------------------------------------------------------------ Init
\* the initial state with the cursor on the first step (useState(0))
InitCursorZero ==
  /\ bootIndex = 0
  /\ bootCompleted = FALSE
  /\ viewMode = "boot"
  /\ logs = << >>
  /\ sessionId = ""
  /\ inputValue = << >>
  /\ isThinking = FALSE
  /\ initp = [ pc |-> "fetch", served |-> FALSE, snap |-> << >> ]
  /\ sends = << >>
  /\ dels = << >>
  /\ subs = << Sub("") >>
  /\ history \in InitHistories
  /\ backendSeq = 0
  /\ nextUUID = 0
  /\ ops = 0
  /\ lastAct = Act("mount", "", "")
  /\ ticks = 0
  /\ isComposing = FALSE
  /\ stats = "null"
  /\ polls = 0
  /\ activeProvider = "gemini"
  /\ isProcessing = FALSE
  /\ systemStatus = "IDLE"
  /\ osLogs = << >>

\* the state after the first render
Init ==
  /\ bootIndex = -1
  /\ bootCompleted = FALSE
  /\ viewMode = "boot"
  /\ logs = << >>
  /\ sessionId = ""
  /\ inputValue = << >>
  /\ isThinking = FALSE
  /\ initp = [ pc |-> "fetch", served |-> FALSE, snap |-> << >> ]
  /\ sends = << >>
  /\ dels = << >>
  /\ subs = << Sub("") >>
  /\ history \in InitHistories
  /\ backendSeq = 0
  /\ nextUUID = 0
  /\ ops = 0
  /\ lastAct = Act("mount", "", "")
  /\ ticks = 0
  /\ isComposing = FALSE
  /\ stats = "null"
  /\ polls = 0
  /\ activeProvider = "gemini"
  /\ isProcessing = FALSE
  /\ systemStatus = "IDLE"
  /\ osLogs = << >>

\* ------------------------------------------------------------------ boot
\* the interval callback returning `next` where the code returns `prev`
BootTickOverrun ==
  /\ ~bootCompleted
  /\ LET next == bootIndex + 1
     IN IF next >= NumBootSteps
        THEN /\ bootCompleted' = TRUE
             /\ bootIndex' = next
        ELSE /\ bootIndex' = next
             /\ bootCompleted' = bootCompleted
  /\ ticks' = ticks + 1
  /\ lastAct' = Act("bootTick", "", "")
  /\ UNCHANGED auxVars
  /\ UNCHANGED << viewMode, logs, sessionId, inputValue, isThinking, initp,
                  sends, dels, subs, history, backendSeq, nextUUID, ops >>

\* setInterval(() => setBootIndex(prev => ...), STEP_INTERVAL_MS)
BootTick ==
  /\ ~bootCompleted
  /\ LET next == bootIndex + 1
     IN IF next >= NumBootSteps
        THEN /\ bootCompleted' = TRUE
             /\ bootIndex' = bootIndex
        ELSE /\ bootIndex' = next
             /\ bootCompleted' = bootCompleted
  /\ ticks' = ticks + 1
  /\ lastAct' = Act("bootTick", "", "")
  /\ UNCHANGED auxVars
  /\ UNCHANGED << viewMode, logs, sessionId, inputValue, isThinking, initp,
                  sends, dels, subs, history, backendSeq, nextUUID, ops >>

\* the transition timer armed without waiting for bootCompleted
TransitionTimerEarly ==
  /\ viewMode = "boot"
  /\ viewMode' = "chat"
  /\ lastAct' = Act("transitionTimer", "", "")
  /\ UNCHANGED auxVars
  /\ UNCHANGED << bootIndex, bootCompleted, ticks, logs, sessionId,
                  inputValue, isThinking, initp, sends, dels, subs, history,
                  backendSeq, nextUUID, ops >>

\* setTimeout(() => setViewMode('chat'), 1500)
TransitionTimer ==
  /\ bootCompleted
  /\ viewMode = "boot"
  /\ viewMode' = "chat"
  /\ lastAct' = Act("transitionTimer", "", "")
  /\ UNCHANGED auxVars
  /\ UNCHANGED << bootIndex, bootCompleted, ticks, logs, sessionId,
                  inputValue, isThinking, initp, sends, dels, subs, history,
                  backendSeq, nextUUID, ops >>

\* ---------------------------------------------------------- history load
\* backend: fetch_history answers init()'s request with a snapshot
InitFetchServed ==
  /\ initp.pc = "fetch"
  /\ ~initp.served
  /\ initp' = [ initp EXCEPT !.served = TRUE, !.snap = history ]
  /\ lastAct' = Act("step", "", "")
  /\ UNCHANGED auxVars
  /\ UNCHANGED << bootVars, logs, sessionId, inputValue, isThinking, sends,
                  dels, subs, backendVars, nextUUID, ops >>

\* init() picking the session of the first log instead of the last
InitSessionFirst(h) ==
  IF Len(h) > 0 THEN h[1].session_id ELSE UUID(nextUUID)

\* the session id init() picks for a history
InitSession(h) ==
  IF Len(h) > 0 THEN h[Len(h)].session_id ELSE UUID(nextUUID)

\* init(): const history = await invoke("fetch_history"); setLogs; setSessionId
InitResolved ==
  /\ initp.pc = "fetch"
  /\ initp.served
  /\ logs' = initp.snap
  /\ sessionId' = InitSession(initp.snap)
  /\ nextUUID' = IF Len(initp.snap) > 0 THEN nextUUID ELSE nextUUID + 1
  /\ subs' = ObserverEffect(sessionId')
  /\ initp' = [ pc |-> "done", served |-> FALSE, snap |-> << >> ]
  /\ lastAct' = Act("initResolved", "", "")
  /\ UNCHANGED auxVars
  /\ UNCHANGED << bootVars, inputValue, isThinking, sends, dels, backendVars, ops >>

\* init() falling back to a fresh session id when fetch_history rejects
InitRejectedFresh ==
  /\ initp.pc = "fetch"
  /\ initp' = [ pc |-> "done", served |-> FALSE, snap |-> << >> ]
  /\ sessionId' = UUID(nextUUID)
  /\ nextUUID' = nextUUID + 1
  /\ subs' = ObserverEffect(sessionId')
  /\ lastAct' = Act("initRejected", "", "")
  /\ UNCHANGED auxVars
  /\ UNCHANGED << bootVars, logs, inputValue, isThinking, sends, dels,
                  backendVars, ops >>

\* init(): catch (e) { console.error(e); }
InitRejected ==
  /\ initp.pc = "fetch"
  /\ initp' = [ pc |-> "done", served |-> FALSE, snap |-> << >> ]
  /\ lastAct' = Act("initRejected", "", "")
  /\ UNCHANGED auxVars
  /\ UNCHANGED << bootVars, logs, sessionId, inputValue, isThinking, sends,
                  dels, subs, backendVars, nextUUID, ops >>

\* -------------------------------------------------------- observer events
\* unlisten = await listen('axis-observer-event', ...) returns
ListenResolved(i) ==
  /\ i \in 1..Len(subs)
  /\ ~subs[i].resolved
  /\ subs' = [ subs EXCEPT ![i].resolved = TRUE ]
  /\ lastAct' = Act("step", "", "")
  /\ UNCHANGED auxVars
  /\ UNCHANGED << bootVars, logs, sessionId, inputValue, isThinking, initp,
                  sends, dels, backendVars, nextUUID, ops >>

\* the InteractionLog a listener builds for a payload
ObserverLog(n, sid, p) == Log(UUID(n), sid, << >>, p, "Observer")

\* the backend emits 'axis-observer-event': every registered listener runs
ObserverEvent(p) ==
  /\ ops < MaxOps
  /\ LET regs == Registered
         news == [ k \in 1..Len(regs) |-> ObserverLog(nextUUID + k - 1, regs[k].sid, p) ]
     IN /\ logs' = logs \o news
        /\ nextUUID' = nextUUID + Len(regs)
  /\ ops' = ops + 1
  /\ lastAct' = Act("observerEvent", "", p)
  /\ UNCHANGED auxVars
  /\ UNCHANGED << bootVars, sessionId, inputValue, isThinking, initp, sends,
                  dels, subs, backendVars >>

\* ------------------------------------------------------ backend contract
\* how many logs one ask may add to the history
AskLogCounts == { 0, 1, 2 }

\* ask(input, sessionId): appends n logs of that session to the history
AskEffect(h, input, sid, n) ==
  h \o [ k \in 1..n |-> Log(BackendId(backendSeq + k - 1), sid, << input >>, "ok", "Axis") ]

\* deleteSession(sessionId): drops that session's logs from the history
DeleteEffect(h, sid) ==
  LET Keep(l) == l.session_id # sid IN SelectSeq(h, Keep)

\* ----------------------------------------------------------------- input
\* onChange={(e) => setInputValue(e.target.value)} of the textarea, which is
\* rendered with disabled={isThinking}
SetInputValue(v) ==
  /\ viewMode = "chat"
  /\ ~isThinking
  /\ v # inputValue
  /\ inputValue' = v
  /\ lastAct' = Act("step", "", "")
  /\ UNCHANGED auxVars
  /\ UNCHANGED << bootVars, logs, sessionId, isThinking, initp, sends, dels,
                  subs, backendVars, nextUUID, ops >>

\* ---------------------------------------------------------------- submit
\* the guard testing the raw input instead of the trimmed one
SendGuardNoTrim == inputValue # << >> /\ ~isThinking

\* executeSend's guard: if (inputValue.trim() && !isThinking)
SendGuard == Trim(inputValue) # << >> /\ ~isThinking

\* executeSend without setIsThinking(true)
executeSendNoBusy ==
  /\ viewMode = "chat"
  /\ ops < MaxOps
  /\ IF SendGuard
     THEN /\ inputValue' = << >>
          /\ isThinking' = isThinking
          /\ sends' = Append(sends, [ pc |-> "raf", text |-> Trim(inputValue),
                                      sessionId |-> sessionId,
                                      served |-> FALSE, snap |-> << >> ])
     ELSE UNCHANGED << inputValue, isThinking, sends >>
  /\ ops' = ops + 1
  /\ lastAct' = Act("executeSend", "", "")
  /\ UNCHANGED auxVars
  /\ UNCHANGED << bootVars, logs, sessionId, initp, dels, subs, backendVars,
                  nextUUID >>

\* executeSend up to `await new Promise(requestAnimationFrame)`; it is the
\* submit operation and can be invoked in every state of the chat view
executeSend ==
  /\ viewMode = "chat"
  /\ ops < MaxOps
  /\ IF SendGuard
     THEN /\ inputValue' = << >>
          /\ isThinking' = TRUE
          /\ sends' = Append(sends, [ pc |-> "raf", text |-> Trim(inputValue),
                                      sessionId |-> sessionId,
                                      served |-> FALSE, snap |-> << >> ])
     ELSE UNCHANGED << inputValue, isThinking, sends >>
  /\ ops' = ops + 1
  /\ lastAct' = Act("executeSend", "", "")
  /\ UNCHANGED auxVars
  /\ UNCHANGED << bootVars, logs, sessionId, initp, dels, subs, backendVars,
                  nextUUID >>

\* ask_axis sent with the session id of the latest render
SendAskIssuedLive(i) ==
  /\ i \in 1..Len(sends)
  /\ sends[i].pc = "raf"
  /\ sends' = [ sends EXCEPT ![i].pc = "ask", ![i].sessionId = sessionId ]
  /\ lastAct' = Act("askIssued", sessionId, "")
  /\ UNCHANGED auxVars
  /\ UNCHANGED << bootVars, logs, sessionId, inputValue, isThinking, initp,
                  dels, subs, backendVars, nextUUID, ops >>

\* the animation frame arrives: invoke("ask_axis", { input: text, sessionId })
SendAskIssued(i) ==
  /\ i \in 1..Len(sends)
  /\ sends[i].pc = "raf"
  /\ sends' = [ sends EXCEPT ![i].pc = "ask" ]
  /\ lastAct' = Act("askIssued", sends[i].sessionId, "")
  /\ UNCHANGED auxVars
  /\ UNCHANGED << bootVars, logs, sessionId, inputValue, isThinking, initp,
                  dels, subs, backendVars, nextUUID, ops >>

\* executeSend reloading only when the ask produced a log
SendAskResolvedSkip(i, n) ==
  /\ i \in 1..Len(sends)
  /\ sends[i].pc = "ask"
  /\ history' = AskEffect(history, sends[i].text, sends[i].sessionId, n)
  /\ backendSeq' = backendSeq + n
  /\ IF n = 0
     THEN /\ sends' = RemoveAt(sends, i)
          /\ isThinking' = FALSE
     ELSE /\ sends' = [ sends EXCEPT ![i].pc = "fetch" ]
          /\ isThinking' = isThinking
  /\ lastAct' = Act("askResolved", sends[i].sessionId, "")
  /\ UNCHANGED auxVars
  /\ UNCHANGED << bootVars, logs, sessionId, inputValue, initp, dels, subs,
                  nextUUID, ops >>

\* ask_axis resolves after adding n logs; invoke("fetch_history") is issued
SendAskResolved(i, n) ==
  /\ i \in 1..Len(sends)
  /\ sends[i].pc = "ask"
  /\ history' = AskEffect(history, sends[i].text, sends[i].sessionId, n)
  /\ backendSeq' = backendSeq + n
  /\ sends' = [ sends EXCEPT ![i].pc = "fetch" ]
  /\ lastAct' = Act("askResolved", sends[i].sessionId, "")
  /\ UNCHANGED auxVars
  /\ UNCHANGED << bootVars, logs, sessionId, inputValue, isThinking, initp,
                  dels, subs, nextUUID, ops >>

\* ask_axis rejects and the busy flag is left as it is (no finally block)
SendAskRejectedNoFinally(i) ==
  /\ i \in 1..Len(sends)
  /\ sends[i].pc = "ask"
  /\ sends' = RemoveAt(sends, i)
  /\ isThinking' = isThinking
  /\ lastAct' = Act("askRejected", sends[i].sessionId, "")
  /\ UNCHANGED auxVars
  /\ UNCHANGED << bootVars, logs, sessionId, inputValue, initp, dels, subs,
                  backendVars, nextUUID, ops >>

\* ask_axis rejects: catch (err) {...} finally { setIsThinking(false) }
SendAskRejected(i) ==
  /\ i \in 1..Len(sends)
  /\ sends[i].pc = "ask"
  /\ sends' = RemoveAt(sends, i)
  /\ isThinking' = FALSE
  /\ lastAct' = Act("askRejected", sends[i].sessionId, "")
  /\ UNCHANGED auxVars
  /\ UNCHANGED << bootVars, logs, sessionId, inputValue, initp, dels, subs,
                  backendVars, nextUUID, ops >>

\* backend: fetch_history answers executeSend's request with a snapshot
SendFetchServed(i) ==
  /\ i \in 1..Len(sends)
  /\ sends[i].pc = "fetch"
  /\ ~sends[i].served
  /\ sends' = [ sends EXCEPT ![i].served = TRUE, ![i].snap = history ]
  /\ lastAct' = Act("step", "", "")
  /\ UNCHANGED auxVars
  /\ UNCHANGED << bootVars, logs, sessionId, inputValue, isThinking, initp,
                  dels, subs, backendVars, nextUUID, ops >>

\* executeSend merging the reloaded history into the log collection
SendFetchMerged(i) ==
  /\ i \in 1..Len(sends)
  /\ sends[i].pc = "fetch"
  /\ sends[i].served
  /\ logs' = logs \o sends[i].snap
  /\ isThinking' = FALSE
  /\ sends' = RemoveAt(sends, i)
  /\ lastAct' = Act("sendFetchResolved", sends[i].sessionId, "")
  /\ UNCHANGED auxVars
  /\ UNCHANGED << bootVars, sessionId, inputValue, initp, dels, subs,
                  backendVars, nextUUID, ops >>

\* setLogs(updated); finally { setIsThinking(false) }
SendFetchResolved(i) ==
  /\ i \in 1..Len(sends)
  /\ sends[i].pc = "fetch"
  /\ sends[i].served
  /\ logs' = sends[i].snap
  /\ isThinking' = FALSE
  /\ sends' = RemoveAt(sends, i)
  /\ lastAct' = Act("sendFetchResolved", sends[i].sessionId, "")
  /\ UNCHANGED auxVars
  /\ UNCHANGED << bootVars, sessionId, inputValue, initp, dels, subs,
                  backendVars, nextUUID, ops >>

\* fetch_history rejects: catch (err) {...} finally { setIsThinking(false) }
SendFetchRejected(i) ==
  /\ i \in 1..Len(sends)
  /\ sends[i].pc = "fetch"
  /\ sends' = RemoveAt(sends, i)
  /\ isThinking' = FALSE
  /\ lastAct' = Act("sendFetchRejected", sends[i].sessionId, "")
  /\ UNCHANGED auxVars
  /\ UNCHANGED << bootVars, logs, sessionId, inputValue, initp, dels, subs,
                  backendVars, nextUUID, ops >>

\* -------------------------------------------------------------- sessions
\* const handleNewChat = () => setSessionId(crypto.randomUUID())
handleNewChat ==
  /\ viewMode = "chat"
  /\ ops < MaxOps
  /\ sessionId' = UUID(nextUUID)
  /\ nextUUID' = nextUUID + 1
  /\ subs' = ObserverEffect(sessionId')
  /\ ops' = ops + 1
  /\ lastAct' = Act("handleNewChat", "", "")
  /\ UNCHANGED auxVars
  /\ UNCHANGED << bootVars, logs, inputValue, isThinking, initp, sends, dels,
                  backendVars >>

\* thread item: onClick={() => setSessionId(sid)}
SelectSession(sid) ==
  /\ viewMode = "chat"
  /\ ops < MaxOps
  /\ Includes(sessions, sid)
  /\ sid # sessionId
  /\ sessionId' = sid
  /\ subs' = ObserverEffect(sid)
  /\ ops' = ops + 1
  /\ lastAct' = Act("selectSession", sid, "")
  /\ UNCHANGED auxVars
  /\ UNCHANGED << bootVars, logs, inputValue, isThinking, initp, sends, dels,
                  backendVars, nextUUID >>

\* ---------------------------------------------------------------- delete
\* handleDeleteSession calling delete_history whatever confirm() answered
handleDeleteSessionUngated(targetSid, confirmed) ==
  /\ viewMode = "chat"
  /\ ops < MaxOps
  /\ Includes(sessions, targetSid)
  /\ dels' = Append(dels, [ pc |-> "delete", targetSid |-> targetSid,
                            sessionId |-> sessionId,
                            served |-> FALSE, snap |-> << >> ])
  /\ ops' = ops + 1
  /\ lastAct' = Act(IF confirmed THEN "deleteConfirmed" ELSE "deleteDeclined",
                    targetSid, "")
  /\ UNCHANGED auxVars
  /\ UNCHANGED << bootVars, logs, sessionId, inputValue, isThinking, initp,
                  sends, subs, backendVars, nextUUID >>

\* handleDeleteSession up to `await invoke("delete_history", ...)`
handleDeleteSession(targetSid, confirmed) ==
  /\ viewMode = "chat"
  /\ ops < MaxOps
  /\ Includes(sessions, targetSid)
  /\ IF confirmed
     THEN dels' = Append(dels, [ pc |-> "delete", targetSid |-> targetSid,
                                 sessionId |-> sessionId,
                                 served |-> FALSE, snap |-> << >> ])
     ELSE dels' = dels
  /\ ops' = ops + 1
  /\ lastAct' = Act(IF confirmed THEN "deleteConfirmed" ELSE "deleteDeclined",
                    targetSid, "")
  /\ UNCHANGED auxVars
  /\ UNCHANGED << bootVars, logs, sessionId, inputValue, isThinking, initp,
                  sends, subs, backendVars, nextUUID >>

\* delete_history resolves; invoke("fetch_history") is issued
DeleteResolved(i) ==
  /\ i \in 1..Len(dels)
  /\ dels[i].pc = "delete"
  /\ history' = DeleteEffect(history, dels[i].targetSid)
  /\ dels' = [ dels EXCEPT ![i].pc = "fetch" ]
  /\ lastAct' = Act("deleteResolved", dels[i].targetSid, "")
  /\ UNCHANGED auxVars
  /\ UNCHANGED << bootVars, logs, sessionId, inputValue, isThinking, initp,
                  sends, subs, backendSeq, nextUUID, ops >>

\* delete_history rejects: catch (err) { console.error(...) }
DeleteRejected(i) ==
  /\ i \in 1..Len(dels)
  /\ dels[i].pc = "delete"
  /\ dels' = RemoveAt(dels, i)
  /\ lastAct' = Act("deleteRejected", dels[i].targetSid, "")
  /\ UNCHANGED auxVars
  /\ UNCHANGED << bootVars, logs, sessionId, inputValue, isThinking, initp,
                  sends, subs, backendVars, nextUUID, ops >>

\* backend: fetch_history answers handleDeleteSession's request
DeleteFetchServed(i) ==
  /\ i \in 1..Len(dels)
  /\ dels[i].pc = "fetch"
  /\ ~dels[i].served
  /\ dels' = [ dels EXCEPT ![i].served = TRUE, ![i].snap = history ]
  /\ lastAct' = Act("step", "", "")
  /\ UNCHANGED auxVars
  /\ UNCHANGED << bootVars, logs, sessionId, inputValue, isThinking, initp,
                  sends, subs, backendVars, nextUUID, ops >>

\* if (targetSid === sessionId), with the sessionId the handler captured
DeletedActive(d) == d.targetSid = d.sessionId

\* setLogs(updated); if (targetSid === sessionId) setSessionId(randomUUID())
DeleteFetchResolved(i) ==
  /\ i \in 1..Len(dels)
  /\ dels[i].pc = "fetch"
  /\ dels[i].served
  /\ logs' = dels[i].snap
  /\ IF DeletedActive(dels[i])
     THEN /\ sessionId' = UUID(nextUUID)
          /\ nextUUID' = nextUUID + 1
     ELSE UNCHANGED << sessionId, nextUUID >>
  /\ subs' = ObserverEffect(sessionId')
  /\ dels' = RemoveAt(dels, i)
  /\ lastAct' = Act("deleteFetchResolved", dels[i].targetSid, "")
  /\ UNCHANGED auxVars
  /\ UNCHANGED << bootVars, inputValue, isThinking, initp, sends, backendVars, ops >>

\* fetch_history rejects: catch (err) { console.error(...) }
DeleteFetchRejected(i) ==
  /\ i \in 1..Len(dels)
  /\ dels[i].pc = "fetch"
  /\ dels' = RemoveAt(dels, i)
  /\ lastAct' = Act("deleteFetchRejected", dels[i].targetSid, "")
  /\ UNCHANGED auxVars
  /\ UNCHANGED << bootVars, logs, sessionId, inputValue, isThinking, initp,
                  sends, subs, backendVars, nextUUID, ops >>

Next ==
  \/ BootTick
  \/ TransitionTimer
  \/ InitFetchServed
  \/ InitResolved
  \/ InitRejected
  \/ \E i \in 1..Len(subs) : ListenResolved(i)
  \/ \E p \in Payloads : ObserverEvent(p)
  \/ \E v \in Inputs : SetInputValue(v)
  \/ executeSend
  \/ \E i \in 1..Len(sends) : SendAskIssued(i)
  \/ \E i \in 1..Len(sends), n \in AskLogCounts : SendAskResolved(i, n)
  \/ \E i \in 1..Len(sends) : SendAskRejected(i)
  \/ \E i \in 1..Len(sends) : SendFetchServed(i)
  \/ \E i \in 1..Len(sends) : SendFetchResolved(i)
  \/ \E i \in 1..Len(sends) : SendFetchRejected(i)
  \/ handleNewChat
  \/ \E i \in 1..Len(sessions) : SelectSession(sessions[i])
  \/ \E i \in 1..Len(sessions), c \in BOOLEAN : handleDeleteSession(sessions[i], c)
  \/ \E i \in 1..Len(dels) : DeleteResolved(i)
  \/ \E i \in 1..Len(dels) : DeleteRejected(i)
  \/ \E i \in 1..Len(dels) : DeleteFetchServed(i)
  \/ \E i \in 1..Len(dels) : DeleteFetchResolved(i)
  \/ \E i \in 1..Len(dels) : DeleteFetchRejected(i)

Spec == Init /\ [][Next]_vars

\* ---------------------------------------------------------------- fairness
\* one step of an executeSend call that is past its guard: the animation
\* frame fires, ask_axis resolves or rejects, fetch_history is answered and
\* resolves or rejects
SendStep ==
  \E i \in 1..Len(sends) :
    \/ SendAskIssued(i)
    \/ \E n \in AskLogCounts : SendAskResolved(i, n)
    \/ SendAskRejected(i)
    \/ SendFetchServed(i)
    \/ SendFetchResolved(i)
    \/ SendFetchRejected(i)

\* the application without the push channel and the delete handler
SubmitNext ==
  \/ BootTick
  \/ TransitionTimer
  \/ InitFetchServed
  \/ InitResolved
  \/ InitRejected
  \/ \E i \in 1..Len(subs) : ListenResolved(i)
  \/ \E v \in Inputs : SetInputValue(v)
  \/ executeSend
  \/ SendStep
  \/ handleNewChat
  \/ \E i \in 1..Len(sessions) : SelectSession(sessions[i])

\* the browser's timers fire and every promise of a submit settles
FairSpec ==
  /\ Init
  /\ [][SubmitNext]_vars
  /\ WF_vars(BootTick)
  /\ WF_vars(TransitionTimer)
  /\ WF_vars(SendStep)

\* ---------------------------------------------------------------- keyboard
\* onCompositionStart={() => setIsComposing(true)}
CompositionStart ==
  /\ viewMode = "chat"
  /\ ~isThinking
  /\ ~isComposing
  /\ isComposing' = TRUE
  /\ lastAct' = Act("compositionStart", "", "")
  /\ UNCHANGED << stats, polls >>
  /\ UNCHANGED storeVars
  /\ UNCHANGED << bootVars, logs, sessionId, inputValue, isThinking, initp,
                  sends, dels, subs, backendVars, nextUUID, ops >>

\* onCompositionEnd={() => setIsComposing(false)}
CompositionEnd ==
  /\ viewMode = "chat"
  /\ isComposing
  /\ isComposing' = FALSE
  /\ lastAct' = Act("compositionEnd", "", "")
  /\ UNCHANGED << stats, polls >>
  /\ UNCHANGED storeVars
  /\ UNCHANGED << bootVars, logs, sessionId, inputValue, isThinking, initp,
                  sends, dels, subs, backendVars, nextUUID, ops >>

\* a keydown that handleKeyDown lets pass without calling executeSend
KeyIgnored(key, shiftKey) ==
  /\ lastAct' = Act("keyDown", key, IF shiftKey THEN "shift" ELSE "")
  /\ UNCHANGED auxVars
  /\ UNCHANGED << bootVars, logs, sessionId, inputValue, isThinking, initp,
                  sends, dels, subs, backendVars, nextUUID, ops >>

\* handleKeyDown testing only the compose flag
handleKeyDownNoShift(key, shiftKey) ==
  /\ viewMode = "chat"
  /\ ~isThinking
  /\ IF key = "Enter" /\ ~isComposing
     THEN executeSend
     ELSE KeyIgnored(key, shiftKey)

\* const handleKeyDown = (e) => {...} on the textarea, which is disabled
\* while isThinking
handleKeyDown(key, shiftKey) ==
  /\ viewMode = "chat"
  /\ ~isThinking
  /\ IF key = "Enter" /\ ~(isComposing \/ shiftKey)
     THEN executeSend
     ELSE KeyIgnored(key, shiftKey)

\* the application driven from the keyboard only
KeyNext ==
  \/ BootTick
  \/ TransitionTimer
  \/ InitFetchServed
  \/ InitResolved
  \/ InitRejected
  \/ \E v \in Inputs : SetInputValue(v)
  \/ CompositionStart
  \/ CompositionEnd
  \/ \E key \in Keys, shiftKey \in BOOLEAN : handleKeyDown(key, shiftKey)
  \/ SendStep

KeySpec == Init /\ [][KeyNext]_vars

\* ------------------------------------------------------------------ vitals
\* fetchStats() called by the vitals effect or by its interval without the
\* effect's bootCompleted test
fetchStatsUngated ==
  /\ polls < MaxPolls
  /\ polls' = polls + 1
  /\ lastAct' = Act("fetchStats", "", "")
  /\ UNCHANGED << isComposing, stats >>
  /\ UNCHANGED storeVars
  /\ UNCHANGED << bootVars, logs, sessionId, inputValue, isThinking, initp,
                  sends, dels, subs, backendVars, nextUUID, ops >>

\* if (!bootCompleted) return; fetchStats(); setInterval(fetchStats, 2000):
\* one get_vital_stats call is issued
fetchStats ==
  /\ bootCompleted
  /\ polls < MaxPolls
  /\ polls' = polls + 1
  /\ lastAct' = Act("fetchStats", "", "")
  /\ UNCHANGED << isComposing, stats >>
  /\ UNCHANGED storeVars
  /\ UNCHANGED << bootVars, logs, sessionId, inputValue, isThinking, initp,
                  sends, dels, subs, backendVars, nextUUID, ops >>

\* const data = await invoke("get_vital_stats"); setStats(data)
VitalResolved(data) ==
  /\ polls > 0
  /\ polls' = polls - 1
  /\ stats' = data
  /\ lastAct' = Act("vitalResolved", "", data)
  /\ UNCHANGED isComposing
  /\ UNCHANGED storeVars
  /\ UNCHANGED << bootVars, logs, sessionId, inputValue, isThinking, initp,
                  sends, dels, subs, backendVars, nextUUID, ops >>

\* get_vital_stats rejects: catch (e) { console.error("Vital Err:", e) }
VitalRejected ==
  /\ polls > 0
  /\ polls' = polls - 1
  /\ lastAct' = Act("vitalRejected", "", "")
  /\ UNCHANGED << isComposing, stats >>
  /\ UNCHANGED storeVars
  /\ UNCHANGED << bootVars, logs, sessionId, inputValue, isThinking, initp,
                  sends, dels, subs, backendVars, nextUUID, ops >>

\* the boot sequence, the history load and the vitals poller
VitalsNext ==
  \/ BootTick
  \/ TransitionTimer
  \/ InitFetchServed
  \/ InitResolved
  \/ InitRejected
  \/ fetchStats
  \/ \E data \in StatsValues : VitalResolved(data)
  \/ VitalRejected

VitalsSpec == Init /\ [][VitalsNext]_vars

\* ---------------------------------------------------------------- OS store
\* setStatus deriving isProcessing from THINKING alone
setStatusThinkingOnly(status) ==
  /\ systemStatus' = status
  /\ isProcessing' = (status = "THINKING")
  /\ lastAct' = Act("setStatus", "", status)
  /\ UNCHANGED << activeProvider, osLogs >>
  /\ UNCHANGED << isComposing, stats, polls >>
  /\ UNCHANGED << bootVars, logs, sessionId, inputValue, isThinking, initp,
                  sends, dels, subs, backendVars, nextUUID, ops >>

\* setStatus: (status) => set({ systemStatus: status, isProcessing: ... })
setStatus(status) ==
  /\ systemStatus' = status
  /\ isProcessing' = (status = "THINKING" \/ status = "EXECUTING")
  /\ lastAct' = Act("setStatus", "", status)
  /\ UNCHANGED << activeProvider, osLogs >>
  /\ UNCHANGED << isComposing, stats, polls >>
  /\ UNCHANGED << bootVars, logs, sessionId, inputValue, isThinking, initp,
                  sends, dels, subs, backendVars, nextUUID, ops >>

\* setProvider: (provider) => set({ activeProvider: provider })
setProvider(provider) ==
  /\ activeProvider' = provider
  /\ lastAct' = Act("setProvider", "", provider)
  /\ UNCHANGED << isProcessing, systemStatus, osLogs >>
  /\ UNCHANGED << isComposing, stats, polls >>
  /\ UNCHANGED << bootVars, logs, sessionId, inputValue, isThinking, initp,
                  sends, dels, subs, backendVars, nextUUID, ops >>

\* addLog: (log) => set((state) => ({ logs: [...state.logs, log] }))
addLog(log) ==
  /\ Len(osLogs) < MaxStoreLogs
  /\ osLogs' = osLogs \o << log >>
  /\ lastAct' = Act("addLog", log.id, "")
  /\ UNCHANGED << activeProvider, isProcessing, systemStatus >>
  /\ UNCHANGED << isComposing, stats, polls >>
  /\ UNCHANGED << bootVars, logs, sessionId, inputValue, isThinking, initp,
                  sends, dels, subs, backendVars, nextUUID, ops >>

\* clearLogs: () => set({ logs: [] })
clearLogs ==
  /\ osLogs' = << >>
  /\ lastAct' = Act("clearLogs", "", "")
  /\ UNCHANGED << activeProvider, isProcessing, systemStatus >>
  /\ UNCHANGED << isComposing, stats, polls >>
  /\ UNCHANGED << bootVars, logs, sessionId, inputValue, isThinking, initp,
                  sends, dels, subs, backendVars, nextUUID, ops >>

\* any sequence of the store's actions
StoreNext ==
  \/ \E status \in Statuses : setStatus(status)
  \/ \E provider \in Providers : setProvider(provider)
  \/ \E log \in StoreLogs : addLog(log)
  \/ clearLogs

StoreSpec == Init /\ [][StoreNext]_vars

\* ============================================================ properties
\* no history load, submit or delete is in flight
Quiescent == initp.pc = "done" /\ sends = << >> /\ dels = << >>

\* the steps that complete a history reload
ReloadOps == { "initResolved", "sendFetchResolved", "deleteFetchResolved" }

\* C1: at most one submit is in flight at any instant, a submit is in flight
\* exactly while the busy flag is set, and a submit invoked while busy starts
\* no backend round trip and leaves the input buffer unchanged.
C1_SingleFlight ==
  [][ /\ Len(sends') <= 1
      /\ isThinking' <=> (sends' # << >>)
      /\ (lastAct'.op = "executeSend" /\ isThinking)
           => UNCHANGED << sends, inputValue, isThinking, logs, history >> ]_vars

\* a submit was invoked while the earlier one was waiting for the backend
C1_Witness ==
  /\ lastAct.op = "executeSend"
  /\ isThinking
  /\ Len(sends) = 1
  /\ sends[1].pc \in { "ask", "fetch" }

\* C2: an observer event delivered to the application appends exactly one
\* log, with empty user tokens, provider "Observer", the payload as response
\* and the session id that is active at delivery.
C2_ObserverAppendsOne ==
  [][ (lastAct'.op = "observerEvent" /\ Len(Registered) >= 1)
        => /\ Len(logs') = Len(logs) + 1
           /\ SubSeq(logs', 1, Len(logs)) = logs
           /\ LET l == logs'[Len(logs')]
              IN /\ l.session_id = sessionId
                 /\ l.user_tokens = << >>
                 /\ l.provider_used = "Observer"
                 /\ l.ai_response = lastAct'.p ]_vars

\* C3: at most one listener is registered on the observer channel.
C3_AtMostOneListener == Len(Registered) <= 1

\* C4 (as stated): the session list contains the active session id in every
\* reachable state.
C4_ActiveAlwaysListed == Includes(sessions, sessionId)

\* C4 (amended): whenever the active session id is set (non-empty), the
\* session list contains it, also when no log carries it.
C4_ActiveListedWhenSet == sessionId # "" => Includes(sessions, sessionId)

C4_Witness ==
  /\ lastAct.op = "handleNewChat"
  /\ logs # << >>
  /\ currentLogs = << >>
  /\ sessions[Len(sessions)] = sessionId

\* C5: when a confirmed delete of s completes and s is the active session at
\* that moment, the active session id becomes a fresh id without logs.
C5_DeleteActiveYieldsFresh ==
  [][ (lastAct'.op = "deleteFetchResolved" /\ lastAct'.sid = sessionId)
        => /\ sessionId' = UUID(nextUUID)
           /\ sessionId' # sessionId
           /\ logsFor(logs', sessionId') = << >> ]_vars

\* C6: a delete of a session that is not the active one when the delete
\* completes leaves the active session id unchanged.
C6_DeleteOtherKeepsActive ==
  [][ (lastAct'.op = "deleteFetchResolved" /\ lastAct'.sid # sessionId)
        => sessionId' = sessionId ]_vars

C8_LoadHistory ==
  [][ lastAct'.op = "initResolved"
        => LET H == initp.snap
           IN /\ logs' = H
              /\ H # << >> => sessionId' = H[Len(H)].session_id
              /\ H = << LogA, LogB >>
                   => /\ sessionId' = "s2"
                      /\ sessionsOf(logs', sessionId') = << "s1", "s2" >>
              /\ H = << >>
                   => /\ sessionId' = UUID(nextUUID)
                      /\ sessionId' # sessionId
                      /\ sessionsOf(logs', sessionId') = << sessionId' >>
                      /\ logsFor(logs', sessionId') = << >> ]_vars

C8_Witness ==
  /\ lastAct.op = "initResolved"
  /\ logs = << LogA, LogB >>
  /\ sessionId = "s2"
  /\ sessions = << "s1", "s2" >>

\* C9 (as stated): every ask call issued by submit is followed by a history
\* fetch.
C9_AskAlwaysReloads ==
  [][ lastAct'.op \in { "askResolved", "askRejected" }
        => \E i \in 1..Len(sends') : sends'[i].pc = "fetch" ]_vars

\* C9 (amended): every ask call that resolves is followed by a history fetch,
\* whatever number of logs the ask produced; when that fetch resolves its
\* result replaces the log collection in the step that clears busy; no
\* other step of a submit changes the log collection.
C9_AskThenReload ==
  [][ /\ lastAct'.op = "askResolved"
           => /\ \E i \in 1..Len(sends) :
                   sends[i].pc = "ask" /\ sends' = [ sends EXCEPT ![i].pc = "fetch" ]
              /\ logs' = logs
              /\ isThinking /\ isThinking'
      /\ lastAct'.op = "sendFetchResolved"
           => /\ \E i \in 1..Len(sends) : sends[i].served /\ logs' = sends[i].snap
              /\ isThinking /\ ~isThinking'
      /\ lastAct'.op \in { "executeSend", "askIssued", "askRejected", "sendFetchRejected" }
           => logs' = logs ]_vars

C9_Witness ==
  /\ lastAct.op = "sendFetchResolved"
  /\ ~isThinking
  /\ \E i \in 1..Len(logs) : logs[i].id = BackendId(1)
  /\ logs = history

\* C10: a submit with empty or whitespace-only text changes nothing: no
\* round trip is started, the input buffer, the busy flag, the logs and the
\* active session id stay as they are.
C10_BlankSubmitNoop ==
  [][ (lastAct'.op = "executeSend" /\ Trim(inputValue) = << >>)
        => UNCHANGED << inputValue, isThinking, sends, dels, initp, logs,
                        sessionId, subs, history >> ]_vars

C10_Witness ==
  /\ lastAct.op = "executeSend"
  /\ inputValue = << " ", "\n" >>
  /\ ~isThinking
  /\ sends = << >>


\* C11: whenever a submit has set the busy flag, and the animation-frame
\* yield and every backend call of that submit eventually resolve or reject,
\* the busy flag eventually becomes false again
C11_BusyEventuallyClears == isThinking ~> ~isThinking

\* a submit whose history reload was rejected has cleared the busy flag
C11_Witness == lastAct.op = "sendFetchRejected" /\ ~isThinking

\* C12 (as stated): after exactly k ticks of the boot interval with k < N the
\* cursor is k-1 and step k-1 is running; after k >= N ticks bootCompleted
\* is true and the cursor is N-1
C12_CursorByTicks ==
  /\ ticks < NumBootSteps =>
       /\ bootIndex = ticks - 1
       /\ ticks >= 1 => renderedSteps[ticks - 1] = "running"
  /\ ticks >= NumBootSteps =>
       /\ bootCompleted
       /\ bootIndex = NumBootSteps - 1

\* C12 (amended): after exactly k ticks with k <= N the cursor is k-1,
\* bootCompleted is false and step k-1 is the running step (no step runs
\* for k = 0); bootCompleted becomes true on tick N+1, which is the last
\* tick and leaves the cursor at N-1
C12_CursorByTicksUpToN ==
  /\ ticks \in 0 .. (NumBootSteps + 1)
  /\ ticks <= NumBootSteps =>
       /\ bootIndex = ticks - 1
       /\ ~bootCompleted
       /\ Running = IF ticks = 0 THEN {} ELSE { ticks - 1 }
  /\ ticks = NumBootSteps + 1 =>
       /\ bootCompleted
       /\ bootIndex = NumBootSteps - 1
       /\ Running = {}

\* N ticks have happened: the last step is running, boot is not completed
C12_Witness ==
  /\ ticks = NumBootSteps
  /\ lastAct.op = "bootTick"
  /\ renderedSteps[NumBootSteps - 1] = "running"

\* C13 (as stated): while bootCompleted is false exactly one step is
\* running; every step up to the cursor is ok or running and every step
\* after it is pending; no step is rendered as failed
C13_BootProjection ==
  /\ ~bootCompleted => Cardinality(Running) = 1
  /\ \A index \in StepIndices :
       /\ index <= bootIndex => renderedSteps[index] \in { "ok", "running" }
       /\ index > bootIndex => renderedSteps[index] = "pending"
       /\ renderedSteps[index] # "failed"

\* C13 (amended): while bootCompleted is false the running steps are
\* exactly the step under the cursor, which is none before the first tick
\* (cursor -1) and one afterwards; once bootCompleted no step is running;
\* steps up to the cursor are ok or running, steps after it pending, and
\* no step is rendered as failed
C13_BootProjectionFromFirstTick ==
  /\ ~bootCompleted =>
       Running = IF bootIndex = -1 THEN {} ELSE { bootIndex }
  /\ bootCompleted => Running = {}
  /\ \A index \in StepIndices :
       /\ index < bootIndex => renderedSteps[index] = "ok"
       /\ index <= bootIndex => renderedSteps[index] \in { "ok", "running" }
       /\ index > bootIndex => renderedSteps[index] = "pending"
       /\ renderedSteps[index] # "failed"

\* in the middle of the boot sequence: steps done, one running, some pending
C13_Witness ==
  /\ ~bootCompleted
  /\ bootIndex = 2
  /\ renderedSteps[1] = "ok"
  /\ renderedSteps[2] = "running"
  /\ renderedSteps[3] = "pending"

\* C14: viewMode starts as boot; its only change is boot -> chat, taken
\* only when bootCompleted is true, so chat implies bootCompleted; once chat
\* it stays chat; with the timers firing viewMode eventually becomes chat
C14_ViewModeOneWay ==
  /\ viewMode = "boot"
  /\ [](viewMode \in { "boot", "chat" })
  /\ [](viewMode = "chat" => bootCompleted)
  /\ [][viewMode' # viewMode =>
         /\ viewMode = "boot"
         /\ viewMode' = "chat"
         /\ bootCompleted
         /\ lastAct'.op = "transitionTimer"]_vars
  /\ [][viewMode = "chat" => viewMode' = "chat"]_vars
  /\ <>(viewMode = "chat")

\* the transition timer has switched the view to chat
C14_Witness ==
  /\ viewMode = "chat"
  /\ lastAct.op = "transitionTimer"
  /\ bootCompleted

\* C20: in every step the cursor does not decrease and stays in -1..N-1;
\* the tick taken with the cursor at N-1 leaves it there and sets
\* bootCompleted; once bootCompleted is true it stays true and the cursor
\* and the tick count never change again
C20_BootNeverDecrements ==
  [][/\ bootIndex' >= bootIndex
     /\ bootIndex' \in -1 .. (NumBootSteps - 1)
     /\ (lastAct'.op = "bootTick" /\ ticks' # ticks) =>
          IF bootIndex = NumBootSteps - 1
          THEN bootIndex' = bootIndex /\ bootCompleted'
          ELSE bootIndex' = bootIndex + 1 /\ ~bootCompleted'
     /\ bootCompleted =>
          /\ bootCompleted'
          /\ bootIndex' = bootIndex
          /\ ticks' = ticks]_vars

\* the completing tick has been taken with the cursor on the last step
C20_Witness ==
  /\ lastAct.op = "bootTick"
  /\ bootCompleted
  /\ bootIndex = NumBootSteps - 1

\* positions of the logs of session sid in a collection
MatchingIndices(ls, sid) == { i \in 1..Len(ls) : ls[i].session_id = sid }

\* r holds exactly the logs of ls at the positions of session sid, the one
\* at the j-th smallest such position in place j
IsSessionSubsequence(r, ls, sid) ==
  LET M == MatchingIndices(ls, sid)
  IN /\ Len(r) = Cardinality(M)
     /\ \A i \in M : r[Cardinality({ m \in M : m <= i })] = ls[i]

\* session ids to ask for: those of the logs, the active one, the empty id
\* and one that no log carries
ProbeSessionIds ==
  { logs[i].session_id : i \in 1..Len(logs) } \cup
  { history[i].session_id : i \in 1..Len(history) } \cup
  { sessionId, "", "none" }

\* C15: for every log collection and every session id, logsFor gives exactly
\* the logs of that session in the collection's order (none for a session
\* without logs)
C15_LogsForIsSubsequence ==
  \A sid \in ProbeSessionIds :
    /\ IsSessionSubsequence(logsFor(logs, sid), logs, sid)
    /\ IsSessionSubsequence(logsFor(history, sid), history, sid)
    /\ MatchingIndices(logs, sid) = {} => logsFor(logs, sid) = << >>

\* the collection interleaves two sessions and the active one has two logs
C15_Witness ==
  /\ Len(currentLogs) >= 2
  /\ \E i \in 1..Len(logs) : \E j \in 1..Len(logs) :
       /\ i < j
       /\ logs[i].session_id # sessionId
       /\ logs[j].session_id = sessionId
  /\ logsFor(logs, "none") = << >>

\* C16: a keydown calls executeSend only if the key is Enter, the compose
\* flag is false and Shift is not held: no step that handleKeyDown can take
\* for a key event during composition, or for Shift+Enter whatever the
\* compose flag, is a submit, and the only submits are those of plain Enter
C16_KeystrokeGating ==
  [][/\ lastAct'.op = "executeSend" => ~isComposing
     /\ \A key \in Keys, shiftKey \in BOOLEAN :
          (handleKeyDown(key, shiftKey) /\ lastAct'.op = "executeSend")
            => (key = "Enter" /\ ~shiftKey /\ ~isComposing)
     /\ lastAct'.op = "keyDown" =>
          UNCHANGED << inputValue, isThinking, sends, logs, sessionId >>]_vars

\* Shift+Enter was pressed on submittable text while composing and nothing
\* was submitted
C16_Witness ==
  /\ lastAct = Act("keyDown", "Enter", "shift")
  /\ isComposing
  /\ Trim(inputValue) # << >>
  /\ sends = << >>
  /\ ~isThinking

\* C17: while bootCompleted is false no get_vital_stats call is issued and
\* stats is null; stats changes only when a poll resolves, to the value
\* returned; a rejected poll leaves stats as it was; the poller's steps leave
\* logs and the active session id unchanged
C17_VitalsSlot ==
  /\ [](~bootCompleted => (polls = 0 /\ stats = "null"))
  /\ [][/\ lastAct'.op = "fetchStats" => bootCompleted
        /\ stats' # stats =>
             (lastAct'.op = "vitalResolved" /\ stats' = lastAct'.p)
        /\ lastAct'.op = "vitalResolved" => stats' = lastAct'.p
        /\ lastAct'.op = "vitalRejected" => stats' = stats
        /\ lastAct'.op \in { "fetchStats", "vitalResolved", "vitalRejected" }
             => UNCHANGED << logs, sessionId >>]_vars

\* a poll was rejected after an earlier one had filled the slot
C17_Witness ==
  /\ lastAct.op = "vitalRejected"
  /\ stats \in StatsValues
  /\ logs # << >>

\* C18: when confirm() answers no, neither delete_history nor fetch_history
\* is called and logs and the active session id are unchanged; a
\* delete_history call is issued only by a click that confirm() answered yes,
\* and the backend deletes and the handler reloads only for such a call
C18_DeleteGatedByConfirm ==
  [][/\ lastAct'.op = "deleteDeclined" =>
          UNCHANGED << dels, logs, sessionId, history, backendSeq, sends,
                       initp, subs, nextUUID >>
     /\ Len(dels') > Len(dels) =>
          /\ lastAct'.op = "deleteConfirmed"
          /\ dels' = Append(dels, dels'[Len(dels')])
          /\ dels'[Len(dels')].pc = "delete"
          /\ dels'[Len(dels')].targetSid = lastAct'.sid
     /\ lastAct'.op \in { "deleteResolved", "deleteFetchResolved" } =>
          \E i \in 1..Len(dels) : dels[i].targetSid = lastAct'.sid]_vars

\* a delete click on a session with logs was declined: nothing is in flight
C18_Witness ==
  /\ lastAct.op = "deleteDeclined"
  /\ logsFor(logs, lastAct.sid) # << >>
  /\ logsFor(history, lastAct.sid) # << >>
  /\ dels = << >>

\* the steps in which a provider call is rejected
FailureOps ==
  { "initRejected", "askRejected", "sendFetchRejected", "deleteRejected",
    "deleteFetchRejected" }

\* C19: when fetch_history rejects in init(), ask_axis or fetch_history
\* rejects in executeSend, or delete_history or fetch_history rejects in
\* handleDeleteSession, logs and the active session id are what they were
\* before the rejection, and the input that executeSend cleared stays empty
C19_FailuresKeepState ==
  [][lastAct'.op \in FailureOps =>
       /\ UNCHANGED << logs, sessionId, inputValue, nextUUID >>
       /\ lastAct'.op \in { "askRejected", "sendFetchRejected" } =>
            /\ inputValue' = << >>
            /\ ~isThinking']_vars

\* the reload after a delete was rejected: the logs deleted in the backend
\* are still in the collection
C19_Witness ==
  /\ lastAct.op = "deleteFetchRejected"
  /\ logsFor(logs, lastAct.sid) # << >>
  /\ logsFor(history, lastAct.sid) = << >>

\* C21: the ask_axis call of a submit carries the session id that was active
\* when executeSend was called, whatever the active session has become when
\* the animation frame arrives, and the backend files the new logs under
\* that id; no step of a submit changes the active session id
C21_AskCarriesInvocationSession ==
  [][/\ Len(sends') > Len(sends) =>
          /\ lastAct'.op = "executeSend"
          /\ sends'[Len(sends')].sessionId = sessionId
     /\ (Len(sends) = 1 /\ Len(sends') = 1) =>
          sends'[1].sessionId = sends[1].sessionId
     /\ lastAct'.op = "askIssued" =>
          /\ Len(sends) = 1
          /\ lastAct'.sid = sends[1].sessionId
     /\ lastAct'.op = "askResolved" =>
          /\ Len(sends) = 1
          /\ SubSeq(history', 1, Len(history)) = history
          /\ \A k \in (Len(history) + 1) .. Len(history') :
               history'[k].session_id = sends[1].sessionId
     /\ sends' # sends => sessionId' = sessionId]_vars

\* the ask was issued for the session of the submit after the user had made
\* another session active
C21_Witness ==
  /\ lastAct.op = "askIssued"
  /\ lastAct.sid # ""
  /\ sessionId # ""
  /\ lastAct.sid # sessionId

\* C22: every ask_axis call carries a non-empty session id
C22_AskHasSessionId ==
  [][lastAct'.op = "askIssued" => lastAct'.sid # ""]_vars

\* the steps by which the user makes a session active
UserPickOps == { "handleNewChat", "selectSession" }

\* C23 (the step right after the user's choice): a step that follows the
\* user's select or new-session and is neither another user choice nor the
\* completion of a delete of the chosen session leaves the active session
\* id as the user chose it
C23_UserChoiceSticks ==
  [][(/\ lastAct.op \in UserPickOps
      /\ lastAct'.op \notin UserPickOps
      /\ ~(lastAct'.op = "deleteFetchResolved" /\ lastAct'.sid = sessionId))
       => sessionId' = sessionId]_vars

\* C24: in every state of the store isProcessing is true exactly when
\* systemStatus is THINKING or EXECUTING; setStatus stores the status it is
\* given; setProvider, addLog and clearLogs leave systemStatus and
\* isProcessing unchanged; addLog appends exactly one entry, the log it is
\* given, at the end of logs; clearLogs empties logs and changes nothing else
C24_StoreInvariant ==
  /\ [](isProcessing <=> systemStatus \in { "THINKING", "EXECUTING" })
  /\ [][/\ lastAct'.op = "setStatus" =>
             /\ systemStatus' = lastAct'.p
             /\ UNCHANGED << activeProvider, osLogs >>
        /\ lastAct'.op \in { "setProvider", "addLog", "clearLogs" } =>
             UNCHANGED << systemStatus, isProcessing >>
        /\ lastAct'.op = "setProvider" =>
             /\ activeProvider' = lastAct'.p
             /\ UNCHANGED osLogs
        /\ lastAct'.op = "addLog" =>
             /\ Len(osLogs') = Len(osLogs) + 1
             /\ SubSeq(osLogs', 1, Len(osLogs)) = osLogs
             /\ osLogs'[Len(osLogs')].id = lastAct'.sid
             /\ osLogs'[Len(osLogs')] \in StoreLogs
             /\ UNCHANGED activeProvider
        /\ lastAct'.op = "clearLogs" =>
             /\ osLogs' = << >>
             /\ UNCHANGED << activeProvider, systemStatus, isProcessing >>]_vars

\* a second log was added while the store was EXECUTING under another
\* provider than the default
C24_Witness ==
  /\ lastAct.op = "addLog"
  /\ Len(osLogs) = 2
  /\ osLogs[1] # osLogs[2]
  /\ systemStatus = "EXECUTING"
  /\ isProcessing
  /\ activeProvider = "claude"

====
